---- MODULE Spec2Model ----
(***************************************************************************)
(* Model of app.py, the Streamlit page of the NBS inventory optimizer.     *)
(*                                                                         *)
(* Streamlit executes the whole script once when the page is opened and    *)
(* once more after every widget interaction (a "rerun").  One rerun is one *)
(* action of this model.  Widget values survive between reruns, every      *)
(* other script variable is recomputed by the rerun, and the value         *)
(* returned by load_model() is kept by st.cache_resource.                  *)
(*                                                                         *)
(* Real numbers.  The model's output is a real; it is represented by its   *)
(* numerator over the fixed denominator Denom (prediction = num / Denom).  *)
(* Quotients are kept as exact fractions, so the comparisons of the script *)
(* are made in exact arithmetic (binary floating-point rounding is not     *)
(* modelled).  sin and cos are tabulated in thousandths.                   *)
(***************************************************************************)
EXTENDS Integers, Sequences, FiniteSets, TLC

VARIABLES
    now,                \* calendar year of the system clock (environment)
    cache,              \* st.cache_resource entry of load_model()
    loadCalls,          \* number of joblib.load calls made so far
    pc,                 \* "start" before the first run of the script, then "idle"
    prediction_month,   \* widget: month selectbox
    current_price,      \* widget: current price
    last_month_price,   \* widget: last month price
    units_sold_lag1,    \* widget: last month's units sold
    is_festive,         \* widget: "No" / "Yes"
    is_harvest,         \* widget: "No" / "Yes"
    predict_button,     \* value of the button in the last run
    model,              \* script variable model of the last run
    current_year,       \* script variables of the last run ...
    month_num,
    months_since_start,
    price_change,
    is_festive_num,
    is_harvest_num,
    month_sin,
    month_cos,
    input_features,     \* <<>> when the last run built no vector
    prediction,         \* <<>> or <<num>>, the model output num / Denom
    calls,              \* model.predict calls made by the last run
    insights,           \* the script's list insights at the end of the last run
    page,               \* what the last run rendered
    memo                \* history variable: one remembered earlier request

vars == <<now, cache, loadCalls, pc, prediction_month, current_price,
          last_month_price, units_sold_lag1, is_festive, is_harvest,
          predict_button, model, current_year, month_num, months_since_start,
          price_change, is_festive_num, is_harvest_num, month_sin, month_cos,
          input_features, prediction, calls, insights, page, memo>>

widgets == <<prediction_month, current_price, last_month_price,
             units_sold_lag1, is_festive, is_harvest>>

scriptVars == <<cache, loadCalls, pc, predict_button, model, current_year,
                month_num, months_since_start, price_change, is_festive_num,
                is_harvest_num, month_sin, month_cos, input_features,
                prediction, calls, insights, page>>

----------------------------------------------------------------------------
(* Bounds of the model *)

\* resolution of the model output: outputs are multiples of 1/Denom
Denom == 2

\* the session may last from 2025 into YearSpan later years
YearSpan == 1

Years == 2025 .. (2025 + YearSpan)

----------------------------------------------------------------------------
(* Program constants *)

EpochYear == 2017

MonthsPerYear == 12

MinPrice == 100

MaxPrice == 10000

DefaultCurrentPrice == 1500

DefaultLastMonthPrice == 1450

MinUnits == 0

MaxUnits == 5000

DefaultUnits == 1008

Months == << "January", "February", "March", "April", "May", "June",
             "July", "August", "September", "October", "November", "December" >>

YesNo == {"No", "Yes"}

\* values the user is let to enter; all lie within the bounds of the widgets
PriceValues == {v \in {DefaultLastMonthPrice, DefaultCurrentPrice} :
                    MinPrice <= v /\ v <= MaxPrice}

UnitsValues == {v \in {MinUnits, 10, DefaultUnits} : MinUnits <= v /\ v <= MaxUnits}

\* whole parts of the outputs the black-box model is let to return
PredWhole == {-1, 0, 9, 11, 1200}

PredValues == {w * Denom + f : w \in PredWhole, f \in 0 .. (Denom - 1)}

\* what joblib.load can give: failure (load_model returns None), an estimator
\* whose predict(...)[0] is a numpy float64, or an object answering with a
\* plain Python float
Handles == {"none", "np_float64", "py_float"}

\* a model call returns a value or raises
ModelOutcomes == {<<"value", n>> : n \in PredValues} \cup {<<"raise", 0>>}

----------------------------------------------------------------------------
(* Pure helpers *)

Abs(x) == IF x < 0 THEN -x ELSE x

\* int(x) of Python for x = n / d, d > 0: truncation toward zero
IntTrunc(n, d) == IF n >= 0 THEN n \div d ELSE -((-n) \div d)

\* formatting with a fixed number of decimals rounds to nearest; ties go to
\* the even neighbour (n >= 0, d > 0)
RoundHalfEven(n, d) ==
    LET q == n \div d
        r == n % d
    IN  IF 2 * r < d THEN q
        ELSE IF 2 * r > d THEN q + 1
        ELSE IF q % 2 = 0 THEN q ELSE q + 1

RoundSigned(n, d) == IF n >= 0 THEN RoundHalfEven(n, d) ELSE -RoundHalfEven(-n, d)

\* list.index(prediction_month) + 1
MonthIndex(name) == (CHOOSE i \in 1 .. Len(Months) : Months[i] = name) - 1

MonthNum(name) == MonthIndex(name) + 1

\* variant: the subtraction left without its parentheses
MonthsSinceStartUngrouped(year, m) == year - EpochYear * MonthsPerYear + m

MonthsSinceStart(year, m) == (year - EpochYear) * MonthsPerYear + m

PriceChange(cp, lp) == cp - lp

FlagNum(sel) == IF sel = "Yes" THEN 1 ELSE 0

\* 1000 * sin(k * 30 degrees), k = 0 .. 11, rounded
SinTable == << 0, 500, 866, 1000, 866, 500, 0, -500, -866, -1000, -866, -500 >>

\* np.sin(2 * pi * m / 12) in thousandths
MonthSin(m) == SinTable[(m % 12) + 1]

\* np.cos(2 * pi * m / 12) in thousandths: cos x = sin(x + 90 degrees)
MonthCos(m) == SinTable[((m + 3) % 12) + 1]

\* variant: the sales lag and the price change in each other's place
InputFeaturesSwapped(mss, lag, pchg, msin, mcos, fest, harv) ==
    << mss, pchg, lag, msin, mcos, fest, harv >>

InputFeatures(mss, lag, pchg, msin, mcos, fest, harv) ==
    << mss, lag, pchg, msin, mcos, fest, harv >>

----------------------------------------------------------------------------
(* Rendered page and advisory strings *)

None == << >>

Some(x) == << x >>

\* one advisory string: its template, and the magnitude formatted into it
\* (inf: the magnitude printed is "inf")
Insight(kind, mag, inf) == [kind |-> kind, mag |-> mag, inf |-> inf]

\* the page before the main content area is rendered
BlankPage ==
    [ view      |-> "none",     \* "prediction" or "default" (the else branch)
      units     |-> None,       \* metric 1, value: int(prediction)
      delta     |-> None,       \* metric 1, delta: int(prediction - units_sold_lag1)
      priceVal  |-> None,       \* metric 2, value: price_change
      pricePct  |-> None,       \* metric 2, delta: tenths of a percent
      revenue   |-> None,       \* metric 3, value: prediction * current_price
      infos     |-> << >>,      \* the st.info boxes, in order
      summary   |-> None,       \* the input summary table
      loadError |-> FALSE,      \* st.error of load_model
      error     |-> "none",     \* st.error of the except clause
      uncaught  |-> "none" ]    \* an exception that left the script

\* variant: the list is kept from the run before instead of being created
CarriedInsights(old) == old

\* insights = []
EmptyInsights(old) == << >>

\* variant: >= in the first test, leaving the else branch out of reach
PriceInsightNoStable(pchg) ==
    IF pchg >= 0 THEN Insight("price_increased", pchg, FALSE)
    ELSE Insight("price_decreased", Abs(pchg), FALSE)

\* lines 155-160: the price-direction insight
PriceInsight(pchg) ==
    IF pchg > 0 THEN Insight("price_increased", pchg, FALSE)
    ELSE IF pchg < 0 THEN Insight("price_decreased", Abs(pchg), FALSE)
    ELSE Insight("price_stable", 0, FALSE)

\* variant: the harvest test placed before the festive test
SeasonInsightsHarvestFirst(fest, harv) ==
    (IF harv = "Yes" THEN << Insight("harvest", 0, FALSE) >> ELSE << >>)
    \o (IF fest = "Yes" THEN << Insight("festive", 0, FALSE) >> ELSE << >>)

\* lines 162-166: the two seasonal advisories
SeasonInsights(fest, harv) ==
    (IF fest = "Yes" THEN << Insight("festive", 0, FALSE) >> ELSE << >>)
    \o (IF harv = "Yes" THEN << Insight("harvest", 0, FALSE) >> ELSE << >>)

\* line 168: ((prediction - units_sold_lag1) / units_sold_lag1) * 100 as the
\* fraction num / den.  A zero divisor raises ZeroDivisionError for a Python
\* float and gives inf, -inf or nan (with a warning) for a numpy float64.
ChangePct(handle, pnum, lag) ==
    IF lag # 0
    THEN [kind |-> "finite", num |-> (pnum - lag * Denom) * 100, den |-> lag * Denom]
    ELSE IF handle = "py_float" THEN [kind |-> "raise", num |-> 0, den |-> 1]
    ELSE IF pnum > 0 THEN [kind |-> "inf", num |-> 0, den |-> 1]
    ELSE IF pnum < 0 THEN [kind |-> "ninf", num |-> 0, den |-> 1]
    ELSE [kind |-> "nan", num |-> 0, den |-> 1]

\* variant: change_pct >= 10
IsIncreaseInclusive(c) == c.kind = "inf" \/ (c.kind = "finite" /\ c.num >= 10 * c.den)

\* change_pct > 10
IsIncrease(c) == c.kind = "inf" \/ (c.kind = "finite" /\ c.num > 10 * c.den)

\* change_pct < -10
IsDrop(c) == c.kind = "ninf" \/ (c.kind = "finite" /\ c.num < (-10) * c.den)

\* lines 169-172: the magnitude advisory, abs(change_pct) printed with one decimal
MagnitudeInsights(c) ==
    LET mag == IF c.kind = "finite" THEN RoundHalfEven(Abs(c.num) * 10, c.den) ELSE 0
        inf == c.kind # "finite"
    IN  IF IsIncrease(c) THEN << Insight("stock_up", mag, inf) >>
        ELSE IF IsDrop(c) THEN << Insight("reduce", mag, inf) >>
        ELSE << >>

\* variant: int(prediction) - units_sold_lag1
UnitsDeltaOfDisplayed(pnum, lag) == IntTrunc(pnum, Denom) - lag

\* int(prediction - units_sold_lag1)
UnitsDelta(pnum, lag) == IntTrunc(pnum - lag * Denom, Denom)

\* lines 178-201: the table echoing the inputs
Summary(pm, mss, cp, lp, pchg, lag, fest, harv) ==
    << pm, mss, cp, lp, pchg, lag, fest, harv >>

\* except Exception: every exception of the try block is an Exception
ExceptionKinds == {"predict", "ZeroDivisionError"}

\* variant: a handler for the model's error only
CatchesModelErrorOnly(e) == e = "predict"

Catches(e) == e \in ExceptionKinds

\* variant: a handler that reports nothing
ExceptBlockSilent(pg, e) == pg

\* lines 203-204: the handler adds the message to what is already on the page
ExceptBlock(pg, e) == [pg EXCEPT !.error = e]

\* leaving the try block with exception e
Raise(pg, e) == IF Catches(e) THEN ExceptBlock(pg, e) ELSE [pg EXCEPT !.uncaught = e]

\* variant: the button alone decides
PredictGateButtonOnly(btn, mdl) == btn

\* line 108
PredictGate(btn, mdl) == btn /\ mdl # "none"

----------------------------------------------------------------------------
(* The script *)

\* History: a remembered request grows older with every run (0, 1, 2 = more)
Aged(m) ==
    IF m = None THEN None
    ELSE Some([m[1] EXCEPT !.age = IF m[1].age < 2 THEN m[1].age + 1 ELSE 2])

\* st.cache_resource keeps whatever load_model returned, None included
CacheStore(r) == r

\* lines 121-204: the try block, for the outcome of the model call.  The
\* result gives the page, the list insights, the prediction and the number of
\* model calls.
TryBlock(pg, handle, outcome, old, pm, mss, cp, lp, pchg, lag, fest, harv) ==
    IF outcome[1] = "raise"
    THEN [ page |-> Raise(pg, "predict"), insights |-> << >>,
           prediction |-> None, calls |-> 1 ]
    ELSE
      LET pnum == outcome[2]
          \* lines 125-146: the three metrics
          pg1  == [pg EXCEPT
                     !.units    = Some(IntTrunc(pnum, Denom)),
                     !.delta    = Some(UnitsDelta(pnum, lag)),
                     !.priceVal = Some(pchg),
                     !.pricePct = Some(RoundSigned(pchg * 1000, lp)),
                     !.revenue  = Some(RoundSigned(pnum * cp, Denom))]
          \* lines 153-166
          ins1 == (EmptyInsights(old) \o << PriceInsight(pchg) >>)
                      \o SeasonInsights(fest, harv)
          c    == ChangePct(handle, pnum, lag)
      IN  IF c.kind = "raise"
          THEN [ page |-> Raise(pg1, "ZeroDivisionError"), insights |-> ins1,
                 prediction |-> Some(pnum), calls |-> 1 ]
          ELSE
            LET ins2 == ins1 \o MagnitudeInsights(c)
            IN  [ page |-> [pg1 EXCEPT
                              !.infos   = ins2,
                              !.summary = Some(Summary(pm, mss, cp, lp, pchg,
                                                       lag, fest, harv))],
                  insights |-> ins2, prediction |-> Some(pnum), calls |-> 1 ]

\* One run of the script with the widgets holding pm, cp, lp, u, f, h and the
\* button giving btn.
Rerun(pm, cp, lp, u, f, h, btn) ==
    \E r \in (IF cache = "empty" THEN Handles ELSE {cache}) :
      LET mnum == MonthNum(pm)
          mss  == MonthsSinceStart(now, mnum)
          pchg == PriceChange(cp, lp)
          fnum == FlagNum(f)
          hnum == FlagNum(h)
          msin == MonthSin(mnum)
          mcos == MonthCos(mnum)
          pg0  == [BlankPage EXCEPT !.loadError = (r = "none")]
      IN
      /\ prediction_month' = pm
      /\ current_price' = cp
      /\ last_month_price' = lp
      /\ units_sold_lag1' = u
      /\ is_festive' = f
      /\ is_harvest' = h
      \* lines 20-29
      /\ cache' = (IF cache = "empty" THEN CacheStore(r) ELSE cache)
      /\ loadCalls' = (IF cache = "empty" THEN loadCalls + 1 ELSE loadCalls)
      /\ model' = r
      \* lines 42-101
      /\ current_year' = now
      /\ month_num' = mnum
      /\ months_since_start' = mss
      /\ price_change' = pchg
      /\ is_festive_num' = fnum
      /\ is_harvest_num' = hnum
      /\ month_sin' = msin
      /\ month_cos' = mcos
      /\ predict_button' = btn
      \* lines 108-227
      /\ IF PredictGate(btn, r)
         THEN \E outcome \in ModelOutcomes :
              \E t \in { TryBlock([pg0 EXCEPT !.view = "prediction"], r, outcome,
                                  insights, pm, mss, cp, lp, pchg, u, f, h) } :
                    /\ input_features' =
                           InputFeatures(mss, u, pchg, msin, mcos, fnum, hnum)
                    /\ prediction' = t.prediction
                    /\ calls' = t.calls
                    /\ insights' = t.insights
                    /\ page' = t.page
         ELSE /\ input_features' = << >>
              /\ prediction' = None
              /\ calls' = 0
              /\ insights' = << >>
              /\ page' = [pg0 EXCEPT !.view = "default"]
      /\ pc' = "idle"
      /\ memo' = Aged(memo)
      /\ UNCHANGED now

----------------------------------------------------------------------------
(* Events *)

\* the page is opened: the first run, with the widgets at their defaults
OpenPage ==
    /\ pc = "start"
    /\ Rerun(prediction_month, current_price, last_month_price,
             units_sold_lag1, is_festive, is_harvest, FALSE)

SelectMonth(S) ==
    /\ pc = "idle"
    /\ \E i \in S : /\ Months[i] # prediction_month
                    /\ Rerun(Months[i], current_price, last_month_price,
                             units_sold_lag1, is_festive, is_harvest, FALSE)

SetCurrentPrice(S) ==
    /\ pc = "idle"
    /\ \E v \in S : /\ v # current_price
                    /\ Rerun(prediction_month, v, last_month_price,
                             units_sold_lag1, is_festive, is_harvest, FALSE)

SetLastMonthPrice(S) ==
    /\ pc = "idle"
    /\ \E v \in S : /\ v # last_month_price
                    /\ Rerun(prediction_month, current_price, v,
                             units_sold_lag1, is_festive, is_harvest, FALSE)

SetUnitsSold(S) ==
    /\ pc = "idle"
    /\ \E v \in S : /\ v # units_sold_lag1
                    /\ Rerun(prediction_month, current_price, last_month_price,
                             v, is_festive, is_harvest, FALSE)

SelectFestive ==
    /\ pc = "idle"
    /\ \E v \in YesNo : /\ v # is_festive
                        /\ Rerun(prediction_month, current_price, last_month_price,
                                 units_sold_lag1, v, is_harvest, FALSE)

SelectHarvest ==
    /\ pc = "idle"
    /\ \E v \in YesNo : /\ v # is_harvest
                        /\ Rerun(prediction_month, current_price, last_month_price,
                                 units_sold_lag1, is_festive, v, FALSE)

\* the predict button is pressed: a run in which the button gives True
ClickPredict ==
    /\ pc = "idle"
    /\ Rerun(prediction_month, current_price, last_month_price,
             units_sold_lag1, is_festive, is_harvest, TRUE)

\* the calendar year changes while the session is open
NewYear ==
    /\ now + 1 \in Years
    /\ now' = now + 1
    /\ UNCHANGED <<widgets, scriptVars, memo>>

\* History only: remember the request just answered, once.  Changes nothing
\* of the program's state.
Remember ==
    /\ pc = "idle"
    /\ memo = None
    /\ prediction # None
    /\ page.error = "none"
    /\ memo' = Some([ month |-> prediction_month, current |-> current_price,
                      last |-> last_month_price, units |-> units_sold_lag1,
                      festive |-> is_festive, harvest |-> is_harvest,
                      year |-> current_year, prediction |-> prediction,
                      features |-> input_features, insights |-> insights,
                      infos |-> page.infos, model |-> model, age |-> 0 ])
    /\ UNCHANGED <<now, widgets, scriptVars>>

Init ==
    /\ now = 2025
    /\ cache = "empty"
    /\ loadCalls = 0
    /\ pc = "start"
    /\ prediction_month = Months[1]
    /\ current_price = DefaultCurrentPrice
    /\ last_month_price = DefaultLastMonthPrice
    /\ units_sold_lag1 = DefaultUnits
    /\ is_festive = "No"
    /\ is_harvest = "No"
    /\ predict_button = FALSE
    /\ model = "none"
    /\ current_year = 0
    /\ month_num = 0
    /\ months_since_start = 0
    /\ price_change = 0
    /\ is_festive_num = 0
    /\ is_harvest_num = 0
    /\ month_sin = 0
    /\ month_cos = 0
    /\ input_features = << >>
    /\ prediction = None
    /\ calls = 0
    /\ insights = << >>
    /\ page = BlankPage
    /\ memo = None

Next ==
    \/ OpenPage
    \/ SelectMonth(1 .. Len(Months))
    \/ SetCurrentPrice(PriceValues)
    \/ SetLastMonthPrice(PriceValues)
    \/ SetUnitsSold(UnitsValues)
    \/ SelectFestive
    \/ SelectHarvest
    \/ ClickPredict
    \/ NewYear

Spec == Init /\ [][Next]_vars

\* The same page with one request remembered, to compare a later request with
\* it; the month, the current price and the festive flag are varied.
NextPair ==
    \/ OpenPage
    \/ SelectMonth({1, 2})
    \/ SetCurrentPrice(PriceValues)
    \/ SelectFestive
    \/ ClickPredict
    \/ Remember

SpecPair == Init /\ [][NextPair]_vars

----------------------------------------------------------------------------
(* Properties *)

\* the last run entered the prediction branch (line 108)
Predicted == pc = "idle" /\ page.view = "prediction"

\* the last run's model call returned a value
Answered == Predicted /\ prediction # None

\* the last run rendered a whole prediction
Succeeded == Answered /\ page.error = "none" /\ page.uncaught = "none"

\* nothing of a prediction is on the page
NothingRendered ==
    /\ page.units = None
    /\ page.delta = None
    /\ page.priceVal = None
    /\ page.pricePct = None
    /\ page.revenue = None
    /\ page.infos = << >>
    /\ page.summary = None

\* everything of a prediction is on the page
CompleteResult ==
    /\ page.units # None
    /\ page.delta # None
    /\ page.priceVal # None
    /\ page.pricePct # None
    /\ page.revenue # None
    /\ page.infos # << >>
    /\ page.summary # None
    /\ page.error = "none"

SelectedMonth == CHOOSE i \in 1 .. 12 : Months[i] = prediction_month

Has(kind) == \E i \in DOMAIN insights : insights[i].kind = kind

Count(kinds) == Cardinality({i \in DOMAIN insights : insights[i].kind \in kinds})

PriceKinds == {"price_increased", "price_decreased", "price_stable"}

MagnitudeKinds == {"stock_up", "reduce"}

\* C1: the vector handed to the model has exactly 7 elements, in this order:
\* (referenceYear - 2017) * 12 + month, unitsSoldLastMonth,
\* currentPrice - lastMonthPrice (not clamped), monthSin(month),
\* monthCos(month), festive flag, harvest flag, the flags being 0 or 1.
C1_FeatureVectorOrder ==
    Predicted =>
        /\ Len(input_features) = 7
        /\ input_features[1] = (current_year - 2017) * 12 + SelectedMonth
        /\ input_features[2] = units_sold_lag1
        /\ input_features[3] = current_price - last_month_price
        /\ input_features[4] = MonthSin(SelectedMonth)
        /\ input_features[5] = MonthCos(SelectedMonth)
        /\ input_features[6] = (IF is_festive = "Yes" THEN 1 ELSE 0)
        /\ input_features[7] = (IF is_harvest = "Yes" THEN 1 ELSE 0)

C1_Witness ==
    /\ Predicted
    /\ input_features[3] < 0
    /\ input_features[6] = 1
    /\ input_features[7] = 0
    /\ input_features[4] < 0
    /\ current_year = 2026

\* C2: once the load of the model artifact has failed, every later run leaves
\* the load failed, calls the model not at all, renders no prediction metric
\* and no insight, and does not load again.
LoadFailed == pc = "idle" /\ model = "none"

C2_LoadFailureDisablesPrediction ==
    [][ LoadFailed =>
          /\ calls = 0 /\ prediction = None /\ NothingRendered
          /\ LoadFailed'
          /\ calls' = 0 /\ prediction' = None /\ NothingRendered'
          /\ page'.view # "prediction"
          /\ loadCalls' = loadCalls /\ loadCalls = 1 ]_vars

C2_Witness == LoadFailed /\ predict_button /\ units_sold_lag1 = 0

\* C3: when the model call raises, the error is caught and reported, nothing
\* of a result is rendered (no metric, no insight, no input summary) and the
\* model was called once only.
ModelRaised == Predicted /\ prediction = None

C3_InferenceFailureAbandons ==
    ModelRaised =>
        /\ page.error = "predict"
        /\ page.uncaught = "none"
        /\ NothingRendered
        /\ insights = << >>
        /\ calls = 1

C3_Witness == ModelRaised /\ page.error = "predict" /\ is_harvest = "Yes"

\* C4: a request with unitsSoldLag1 = 0 does not crash: no exception leaves
\* the script, and the request ends with a complete result or with a
\* reported error, whatever the model returns.
C4_ZeroLagDoesNotCrash ==
    (Predicted /\ units_sold_lag1 = 0) =>
        /\ page.uncaught = "none"
        /\ CompleteResult \/ page.error # "none"

C4_Witness ==
    /\ Predicted /\ units_sold_lag1 = 0 /\ CompleteResult
    /\ \E i \in DOMAIN page.infos : page.infos[i].inf

\* C5: an advisory list holds exactly one price-direction insight: "price
\* increased" iff priceChange > 0, "price decreased" iff priceChange < 0,
\* "price stable" iff priceChange = 0.
C5_OnePriceInsight ==
    Answered =>
        /\ Count(PriceKinds) = 1
        /\ Has("price_increased") <=> current_price > last_month_price
        /\ Has("price_decreased") <=> current_price < last_month_price
        /\ Has("price_stable") <=> current_price = last_month_price

C5_Witness ==
    Answered /\ current_price = last_month_price /\ Has("price_stable")

\* C6: with unitsSoldLag1 > 0 and changePercent = (predictedUnits -
\* unitsSoldLag1) / unitsSoldLag1 * 100, "stock up" is in the list iff
\* changePercent > 10 and "reduce inventory" iff changePercent < -10, never
\* both, whatever the price change and the flags; 1008 and 1200 give "stock up".
C6_MagnitudeAdvisory ==
    (Succeeded /\ units_sold_lag1 > 0) =>
        LET p == prediction[1]
            u == units_sold_lag1 * Denom
        IN  /\ Has("stock_up") <=> (p - u) * 100 > 10 * u
            /\ Has("reduce") <=> (p - u) * 100 < (-10) * u
            /\ ~ (Has("stock_up") /\ Has("reduce"))
            /\ Count(MagnitudeKinds) <= 1
            /\ (units_sold_lag1 = 1008 /\ p = 1200 * Denom) => Has("stock_up")

C6_Witness ==
    /\ Succeeded /\ units_sold_lag1 = 1008 /\ prediction = Some(1200 * Denom)
    /\ Has("stock_up") /\ is_festive = "Yes" /\ price_change < 0

\* C7: a request with the same inputs and the same model output as an earlier
\* request of the session gives the same feature vector and the same ordered
\* advisory list, whatever was requested in between; the model handle is the
\* one of the earlier request.
SameRequest ==
    /\ memo # None
    /\ Answered
    /\ page.error = "none"
    /\ memo[1].month = prediction_month
    /\ memo[1].current = current_price
    /\ memo[1].last = last_month_price
    /\ memo[1].units = units_sold_lag1
    /\ memo[1].festive = is_festive
    /\ memo[1].harvest = is_harvest
    /\ memo[1].year = current_year
    /\ memo[1].prediction = prediction

C7_RequestsIndependent ==
    /\ (memo # None /\ pc = "idle") => memo[1].model = model
    /\ SameRequest =>
          /\ memo[1].features = input_features
          /\ memo[1].insights = insights
          /\ memo[1].infos = page.infos

C7_Witness ==
    SameRequest /\ memo[1].age = 2 /\ Len(insights) = 3 /\ current_price = 1450

\* C8: monthsSinceStart = (referenceYear - 2017) * 12 + month is strictly
\* increasing in the month for a fixed year, grows by exactly 12 when the
\* year grows by 1, and is 98 for month 2 of 2025.
C8_MonthsSinceStart ==
    pc = "idle" =>
        /\ \A m \in 1 .. 12 :
              /\ m > month_num => MonthsSinceStart(current_year, m) > months_since_start
              /\ m < month_num => MonthsSinceStart(current_year, m) < months_since_start
        /\ MonthsSinceStart(current_year + 1, month_num) = months_since_start + 12
        /\ MonthsSinceStart(current_year - 1, month_num) = months_since_start - 12
        /\ (month_num = 2 /\ current_year = 2025) => months_since_start = 98

C8_Witness ==
    pc = "idle" /\ month_num = 2 /\ current_year = 2025 /\ months_since_start = 98

\* C9: the advisory list of a successful prediction is, in this order, the one
\* price-direction insight, the festive advisory iff isFestive, the harvest
\* advisory iff isHarvest, and at most one magnitude advisory: 1 to 4 entries,
\* festive before harvest.
C9_AdvisoryOrder ==
    Succeeded =>
        LET n == Len(insights)
            f == IF is_festive = "Yes" THEN 1 ELSE 0
            h == IF is_harvest = "Yes" THEN 1 ELSE 0
        IN  /\ 1 <= n /\ n <= 4
            /\ insights[1].kind \in PriceKinds
            /\ n \in {1 + f + h, 2 + f + h}
            /\ f = 1 => insights[2].kind = "festive"
            /\ h = 1 => insights[2 + f].kind = "harvest"
            /\ n = 2 + f + h => insights[n].kind \in MagnitudeKinds
            /\ Count({"festive"}) = f
            /\ Count({"harvest"}) = h
            /\ page.infos = insights

C9_Witness ==
    /\ Succeeded /\ Len(insights) = 4
    /\ insights[2].kind = "festive" /\ insights[3].kind = "harvest"
    /\ insights[4].kind = "reduce"

\* C10 as claimed: the displayed units delta is the displayed predicted units
\* (the output truncated to an integer) minus unitsSoldLag1, for every output.
C10_DeltaOfDisplayedUnits ==
    (Answered /\ page.delta # None) =>
        page.delta[1] = page.units[1] - units_sold_lag1

\* C10 amended: the displayed units delta is the truncation of (output -
\* unitsSoldLag1); it is the displayed predicted units minus unitsSoldLag1,
\* except for an output with a fractional part lying between 0 and
\* unitsSoldLag1, where it is one more.
FractionalBelowLag ==
    /\ prediction[1] % Denom # 0
    /\ prediction[1] > 0
    /\ prediction[1] < units_sold_lag1 * Denom

C10_DeltaTruncatesDifference ==
    (Answered /\ page.delta # None) =>
        page.delta[1] = page.units[1] - units_sold_lag1
                          + (IF FractionalBelowLag THEN 1 ELSE 0)

C10_Witness ==
    /\ Answered /\ page.delta # None /\ FractionalBelowLag
    /\ page.units = Some(9) /\ units_sold_lag1 = 10 /\ page.delta = Some(0)

====
